---- MODULE Spec2Model ----
(***************************************************************************)
(* Batch extraction pipeline of the order-audit application.               *)
(*                                                                         *)
(* App (src/App.tsx) owns the batch state (status, results, progress) and  *)
(* runs handleFilesSelected, an async function that awaits one             *)
(* extractOrdersFromPdf call per file.  UploadZone (drop zone and hidden   *)
(* file input) is the only caller of handleFilesSelected.                  *)
(*                                                                         *)
(* JavaScript runs one handler at a time.  An activation of                *)
(* handleFilesSelected whose pc is "loop" is executing synchronously       *)
(* (between two awaits); no event is delivered until it suspends or ends.  *)
(* The browser's file chooser is modal to the page, and alert() blocks the *)
(* page until it is dismissed.                                             *)
(***************************************************************************)
EXTENDS Integers, Sequences, FiniteSets, TLC

\* Largest number of files in one user selection (FileList).
MaxSel == 2
\* Largest number of handleFilesSelected activations alive at once.
MaxActive == 2

PDF == "application/pdf"

\* The files the user can pick or drop: two PDFs and one non-PDF.
Files ==
    { [name |-> "a.pdf", type |-> PDF],
      [name |-> "b.pdf", type |-> PDF],
      [name |-> "c.txt", type |-> "text/plain"] }

\* A FileList: up to MaxSel distinct files, in the order the user gave them.
Selections ==
    { s \in UNION { [1..n -> Files] : n \in 0..MaxSel } :
        \A j, k \in DOMAIN s : j # k => s[j] # s[k] }

\* OrderError records the service can return (types, OrderError).
o1 == [orderNumber |-> "2E955", restaurantName |-> "Almada Forum", platform |-> "Glovo"]
o2 == [orderNumber |-> "10154", restaurantName |-> "Miraflores", platform |-> "Uber Eats"]

\* response.text values: empty, JSON arrays, and text that is not JSON.
Texts == { "", "[]", "[o1]", "[o1,o2]", "<html>" }

\* What the generateContent promise settles to: a rejection or a response text.
REJECT == "REJECT"
ServiceResponses == { REJECT } \cup Texts

VARIABLES
    status,      \* App state: ProcessingStatus
    results,     \* App state: ExtractedFileResult[]
    progress,    \* App state: progress label
    acts,        \* live activations of handleFilesSelected, oldest first
    pickerOpen,  \* the file chooser of the hidden input is showing
    alertOpen,   \* handleDrop is blocked in alert()
    apiKey,      \* process.env.API_KEY is set
    selectedRestaurants  \* ResultsTable state: the restaurant filter

vars == <<status, results, progress, acts, pickerOpen, alertOpen, apiKey,
          selectedRestaurants>>

----------------------------------------------------------------------------
\* Pure helpers

NoProgress == <<>>

\* `Analisando arquivo ${i + 1} de ${files.length}: ${file.name}...`
ProgressLabel(n, total, name) == <<n, total, name>>

ErrorOutcome(file) ==
    [fileName |-> file.name, status |-> "error", orders |-> <<>>,
     errorMessage |-> "Falha ao processar PDF"]

SuccessOutcome(file, orders) ==
    [fileName |-> file.name, status |-> "success", orders |-> orders]

\* JSON.parse: the parsed array, or a thrown SyntaxError.
JSONparse(text) ==
    CASE text = "[]"      -> [ok |-> TRUE, value |-> <<>>]
      [] text = "[o1]"    -> [ok |-> TRUE, value |-> <<o1>>]
      [] text = "[o1,o2]" -> [ok |-> TRUE, value |-> <<o1, o2>>]
      [] OTHER            -> [ok |-> FALSE, value |-> <<>>]

\* ParseResponse without the `if (!text) return []` line.
ParseResponse_NoEmptyCheck(text) == JSONparse(text)

\* Lines 86-90 of extractOrdersFromPdf: what the call settles to for a
\* successful response with this text.
ParseResponse(text) ==
    IF text = "" THEN [ok |-> TRUE, value |-> <<>>]
    ELSE JSONparse(text)

validFiles(sel) == SelectSeq(sel, LAMBDA f : f.type = PDF)

RemoveAt(s, b) == SubSeq(s, 1, b - 1) \o SubSeq(s, b + 1, Len(s))

isProcessing == status = "PROCESSING"

\* The file of the current loop iteration (files[i], i counted from 0).
CurrentFile(a) == a.files[a.i + 1]

\* Caught with the catch missing: the rejection escapes the loop and the
\* activation ends where it stood.
Caught_Uncaught(a) == [a EXCEPT !.pc = "threw"]

\* catch branch of the loop: push the error outcome, go on with i + 1.
Caught(a) ==
    [a EXCEPT !.newResults = Append(@, ErrorOutcome(CurrentFile(a))),
              !.i = @ + 1, !.pc = "loop"]

\* Resolved with unshift in place of push.
Resolved_Unshift(a, orders) ==
    [a EXCEPT !.newResults = <<SuccessOutcome(CurrentFile(a), orders)>> \o @,
              !.i = @ + 1, !.pc = "loop"]

\* try branch after the await: push the success outcome, go on with i + 1.
Resolved(a, orders) ==
    [a EXCEPT !.newResults = Append(@, SuccessOutcome(CurrentFile(a), orders)),
              !.i = @ + 1, !.pc = "loop"]

\* extractOrdersFromPdf without the `if (!apiKey) throw` lines.
extractOrdersFromPdf_NoKeyCheck(a) == [a EXCEPT !.pc = "fileToBase64"]

\* The synchronous start of extractOrdersFromPdf, as seen by the awaiting loop.
extractOrdersFromPdf(a) ==
    IF ~apiKey THEN Caught(a) ELSE [a EXCEPT !.pc = "fileToBase64"]

\* ResultsTable without the early return on an empty list.
ResultsTable_NoEarlyReturn(res) == "summary"

\* <ResultsTable results={results} />: null for an empty list.
ResultsTable(res) == IF Len(res) = 0 THEN "null" ELSE "summary"

\* What App renders in the results section.
ResultsSection == IF status = "COMPLETED" THEN ResultsTable(results) ELSE "null"

----------------------------------------------------------------------------
\* ResultsTable: the derived view (useMemo values) as pure operators

Range(seq) == { seq[k] : k \in DOMAIN seq }

\* The UTF-16 code units of the strings that occur in the model.
CodeUnits(s) ==
    CASE s = "Almada Forum" -> <<65, 108, 109, 97, 100, 97, 32, 70, 111, 114, 117, 109>>
      [] s = "Miraflores" -> <<77, 105, 114, 97, 102, 108, 111, 114, 101, 115>>
      [] s = "Uber Eats" -> <<85, 98, 101, 114, 32, 69, 97, 116, 115>>
      [] s = "Glovo" -> <<71, 108, 111, 118, 111>>
      [] s = "Bolt" -> <<66, 111, 108, 116>>
      [] s = "Unknown" -> <<85, 110, 107, 110, 111, 119, 110>>
      [] s = "Just Eat" -> <<74, 117, 115, 116, 32, 69, 97, 116>>

\* Lexicographic order of two code-unit sequences: a strictly before b.
RECURSIVE UnitsLess(_, _)
UnitsLess(a, b) ==
    IF b = <<>> THEN FALSE
    ELSE IF a = <<>> THEN TRUE
    ELSE IF Head(a) # Head(b) THEN Head(a) < Head(b)
    ELSE UnitsLess(Tail(a), Tail(b))

\* a.localeCompare(b) as a sign; the strings of the model are capitalised
\* ASCII words, on which collation order and code-unit order agree.
localeCompare(a, b) ==
    IF a = b THEN 0
    ELSE IF UnitsLess(CodeUnits(a), CodeUnits(b)) THEN -1 ELSE 1

\* The restaurant and platform names orders are built from.
Restaurants == { "Almada Forum", "Miraflores" }
Platforms == { "Uber Eats", "Glovo", "Bolt", "Unknown", "Just Eat" }

\* { ...o, sourceFile: r.fileName }
Tagged(o, fileName) ==
    [orderNumber |-> o.orderNumber, restaurantName |-> o.restaurantName,
     platform |-> o.platform, sourceFile |-> fileName]

\* results.flatMap(r => r.orders.map(...))
RECURSIVE flatMap(_)
flatMap(res) ==
    IF res = <<>> THEN <<>>
    ELSE [k \in 1..Len(Head(res).orders) |->
              Tagged(Head(res).orders[k], Head(res).fileName)]
         \o flatMap(Tail(res))

allOrders(res) == IF Len(res) = 0 THEN <<>> ELSE flatMap(res)

\* Array.from(new Set(seq)): the distinct values, in order of first occurrence.
RECURSIVE ArrayFromSet(_)
ArrayFromSet(seq) ==
    IF seq = <<>> THEN <<>>
    ELSE LET front == ArrayFromSet(SubSeq(seq, 1, Len(seq) - 1))
             x == seq[Len(seq)]
         IN IF x \in Range(front) THEN front ELSE Append(front, x)

\* names.sort(): ascending by code units.
RECURSIVE sortNames(_)
sortNames(seq) ==
    IF seq = <<>> THEN <<>>
    ELSE LET rest == sortNames(Tail(seq))
             x == Head(seq)
             n == Cardinality({ k \in DOMAIN rest :
                                  ~UnitsLess(CodeUnits(x), CodeUnits(rest[k])) })
         IN SubSeq(rest, 1, n) \o <<x>> \o SubSeq(rest, n + 1, Len(rest))

uniqueRestaurants(orders) ==
    sortNames(ArrayFromSet([k \in DOMAIN orders |-> orders[k].restaurantName]))

includes(seq, x) == x \in Range(seq)

\* filteredOrders without the test for an empty selection.
filteredOrders_NoEmptyCase(orders, selected) ==
    SelectSeq(orders, LAMBDA o : includes(selected, o.restaurantName))

filteredOrders(orders, selected) ==
    IF Len(selected) = 0 THEN orders
    ELSE SelectSeq(orders, LAMBDA o : includes(selected, o.restaurantName))

priority == <<"Uber Eats", "Glovo", "Bolt">>

\* priority.indexOf(p), counted from 0; -1 when absent.
indexOf(seq, p) ==
    IF p \in Range(seq) THEN (CHOOSE k \in DOMAIN seq : seq[k] = p) - 1 ELSE -1

\* comparePlatforms without the `if (idxB !== -1) return 1` line.
comparePlatforms_NoRightPriority(a, b) ==
    LET idxA == indexOf(priority, a)
        idxB == indexOf(priority, b)
    IN IF idxA # -1 /\ idxB # -1 THEN idxA - idxB
       ELSE IF idxA # -1 THEN -1
       ELSE localeCompare(a, b)

\* The comparator given to sort.
comparePlatforms(a, b) ==
    LET idxA == indexOf(priority, a)
        idxB == indexOf(priority, b)
    IN IF idxA # -1 /\ idxB # -1 THEN idxA - idxB
       ELSE IF idxA # -1 THEN -1
       ELSE IF idxB # -1 THEN 1
       ELSE localeCompare(a, b)

\* Array.prototype.sort with comparePlatforms (a stable insertion sort).
RECURSIVE sortPlatforms(_)
sortPlatforms(seq) ==
    IF seq = <<>> THEN <<>>
    ELSE LET front == sortPlatforms(SubSeq(seq, 1, Len(seq) - 1))
             x == seq[Len(seq)]
             n == IF \E k \in DOMAIN front : comparePlatforms(x, front[k]) < 0
                  THEN (CHOOSE k \in DOMAIN front :
                           /\ comparePlatforms(x, front[k]) < 0
                           /\ \A j \in 1..(k - 1) : comparePlatforms(x, front[j]) >= 0) - 1
                  ELSE Len(front)
         IN SubSeq(front, 1, n) \o <<x>> \o SubSeq(front, n + 1, Len(front))

\* detectedPlatforms, sorted.
sortedPlatforms(filtered) ==
    sortPlatforms(ArrayFromSet([k \in DOMAIN filtered |-> filtered[k].platform]))

\* A new row: { total: 0 } and a 0 for every platform in view.
NewRow(platforms) == [k \in {"total"} \cup Range(platforms) |-> 0]

\* obj[key] = value on an object seen as a function from its keys.
Put(obj, key, value) ==
    [k \in DOMAIN obj \cup {key} |-> IF k = key THEN value ELSE obj[k]]

\* initialStats with a zero row for every restaurant of uniqueRestaurants.
initialStats_Preseeded(selected, unique, platforms) ==
    [r \in Range(unique) |-> NewRow(platforms)]

\* const stats = {}; restaurantsToTrack is computed and not used.
initialStats(selected, unique, platforms) == [r \in {} |-> NewRow(platforms)]

\* countOrder without stats[rest].total++ for a row that exists already.
countOrder_TotalOnlyOnNewRow(stats, order, platforms) ==
    LET rest == order.restaurantName
        plat == order.platform
        s1 == IF rest \in DOMAIN stats THEN stats ELSE Put(stats, rest, NewRow(platforms))
        row1 == s1[rest]
        row2 == IF plat \in DOMAIN row1 THEN row1 ELSE Put(row1, plat, 0)
        row3 == [row2 EXCEPT ![plat] = @ + 1]
        row4 == IF rest \in DOMAIN stats THEN row3 ELSE [row3 EXCEPT !["total"] = @ + 1]
    IN [s1 EXCEPT ![rest] = row4]

\* The body of the second forEach: count one order.
countOrder(stats, order, platforms) ==
    LET rest == order.restaurantName
        plat == order.platform
        s1 == IF rest \in DOMAIN stats THEN stats ELSE Put(stats, rest, NewRow(platforms))
        row1 == s1[rest]
        row2 == IF plat \in DOMAIN row1 THEN row1 ELSE Put(row1, plat, 0)
        row3 == [row2 EXCEPT ![plat] = @ + 1]
        row4 == [row3 EXCEPT !["total"] = @ + 1]
    IN [s1 EXCEPT ![rest] = row4]

RECURSIVE populate(_, _, _)
populate(stats, filtered, platforms) ==
    IF filtered = <<>> THEN stats
    ELSE populate(countOrder(stats, Head(filtered), platforms), Tail(filtered), platforms)

summaryStats(filtered, unique, selected) ==
    LET platforms == sortedPlatforms(filtered)
    IN [stats |-> populate(initialStats(selected, unique, platforms), filtered, platforms),
        platforms |-> platforms]

\* setSelectedRestaurants(prev => ...) of toggleRestaurant.
toggled(prev, name) ==
    IF includes(prev, name)
    THEN SelectSeq(prev, LAMBDA n : n # name)
    ELSE Append(prev, name)

\* selectedAfterRender with ResultsTable rendered whatever the status.
selectedAfterRender_AlwaysMounted(st, sel) == sel

\* The filter state of ResultsTable after App has rendered while the status
\* was st: the component is mounted only for COMPLETED, and a new mount
\* starts from useState([]).
selectedAfterRender(st, sel) == IF st = "COMPLETED" THEN sel ELSE <<>>

----------------------------------------------------------------------------
\* Scheduling

Running == \E b \in DOMAIN acts : acts[b].pc = "loop"

\* A task (event or promise settlement) can be delivered.
Quiescent == ~alertOpen /\ ~Running

\* A user gesture reaches the page.
UserCanAct == Quiescent /\ ~pickerOpen

Suspended(a) == a.pc \in {"fileToBase64", "generateContent"}

----------------------------------------------------------------------------
Init ==
    /\ status = "IDLE"
    /\ results = <<>>
    /\ progress = NoProgress
    /\ acts = <<>>
    /\ pickerOpen = FALSE
    /\ alertOpen = FALSE
    /\ apiKey \in BOOLEAN
    /\ selectedRestaurants = <<>>

\* handleFilesSelected without setResults([]).
handleFilesSelected_NoReset(files) ==
    /\ Len(acts) < MaxActive
    /\ status' = "PROCESSING"
    /\ acts' = Append(acts, [files |-> files, i |-> 0, newResults |-> <<>>, pc |-> "loop"])
    /\ selectedRestaurants' = selectedAfterRender("PROCESSING", selectedRestaurants)
    /\ UNCHANGED <<results, progress>>

\* handleFilesSelected up to the loop head.
handleFilesSelected(files) ==
    /\ Len(acts) < MaxActive
    /\ status' = "PROCESSING"
    /\ results' = <<>>
    /\ acts' = Append(acts, [files |-> files, i |-> 0, newResults |-> <<>>, pc |-> "loop"])
    /\ selectedRestaurants' = selectedAfterRender("PROCESSING", selectedRestaurants)
    /\ UNCHANGED progress

\* handleDrop without `if (isProcessing) return`.
handleDrop_NoGuard(sel) ==
    /\ UserCanAct
    /\ UNCHANGED <<pickerOpen, apiKey>>
    /\ IF Len(sel) > 0
       THEN IF Len(validFiles(sel)) > 0
            THEN handleFilesSelected(validFiles(sel)) /\ UNCHANGED alertOpen
            ELSE alertOpen' = TRUE /\ UNCHANGED <<status, results, progress, acts, selectedRestaurants>>
       ELSE UNCHANGED <<status, results, progress, acts, alertOpen, selectedRestaurants>>

\* onDrop of the upload zone.
handleDrop(sel) ==
    /\ UserCanAct
    /\ UNCHANGED <<pickerOpen, apiKey>>
    /\ IF isProcessing
       THEN UNCHANGED <<status, results, progress, acts, alertOpen, selectedRestaurants>>
       ELSE IF Len(sel) > 0
            THEN IF Len(validFiles(sel)) > 0
                 THEN handleFilesSelected(validFiles(sel)) /\ UNCHANGED alertOpen
                 ELSE alertOpen' = TRUE /\ UNCHANGED <<status, results, progress, acts, selectedRestaurants>>
            ELSE UNCHANGED <<status, results, progress, acts, alertOpen, selectedRestaurants>>

DismissAlert ==
    /\ alertOpen
    /\ alertOpen' = FALSE
    /\ UNCHANGED <<status, results, progress, acts, pickerOpen, apiKey,
                 selectedRestaurants>>

handleClick ==
    /\ UserCanAct
    /\ pickerOpen' = ~isProcessing
    /\ UNCHANGED <<status, results, progress, acts, alertOpen, apiKey,
                 selectedRestaurants>>

PickerCancel ==
    /\ pickerOpen /\ Quiescent
    /\ pickerOpen' = FALSE
    /\ UNCHANGED <<status, results, progress, acts, alertOpen, apiKey,
                 selectedRestaurants>>

handleFileInput(sel) ==
    /\ pickerOpen /\ Quiescent
    /\ pickerOpen' = FALSE
    /\ UNCHANGED <<alertOpen, apiKey>>
    /\ IF Len(sel) > 0
       THEN handleFilesSelected(validFiles(sel))
       ELSE UNCHANGED <<status, results, progress, acts, selectedRestaurants>>

\* One turn of the for loop, or the statements after it.
LoopStep(b) ==
    /\ ~alertOpen
    /\ acts[b].pc = "loop"
    /\ UNCHANGED <<pickerOpen, alertOpen, apiKey>>
    /\ LET a == acts[b] IN
       IF a.i < Len(a.files)
       THEN /\ progress' = ProgressLabel(a.i + 1, Len(a.files), CurrentFile(a).name)
            /\ acts' = [acts EXCEPT ![b] = extractOrdersFromPdf(a)]
            /\ UNCHANGED <<status, results, selectedRestaurants>>
       ELSE /\ results' = a.newResults
            /\ status' = "COMPLETED"
            /\ progress' = NoProgress
            /\ acts' = RemoveAt(acts, b)
            /\ selectedRestaurants' = selectedAfterRender(status, selectedRestaurants)

\* await fileToBase64(file) settles; on success generateContent is called.
fileToBase64Settles(b, ok) ==
    /\ Quiescent
    /\ acts[b].pc = "fileToBase64"
    /\ acts' = [acts EXCEPT ![b] = IF ok THEN [@ EXCEPT !.pc = "generateContent"]
                                          ELSE Caught(@)]
    /\ UNCHANGED <<status, results, progress, pickerOpen, alertOpen, apiKey,
                 selectedRestaurants>>

\* await ai.models.generateContent(...) settles; the rest of
\* extractOrdersFromPdf and the try/catch of the loop run.
generateContentSettles(b, resp) ==
    /\ Quiescent
    /\ acts[b].pc = "generateContent"
    /\ acts' = [acts EXCEPT ![b] =
                  IF resp = REJECT THEN Caught(@)
                  ELSE IF ParseResponse(resp).ok
                       THEN Resolved(@, ParseResponse(resp).value)
                       ELSE Caught(@)]
    /\ UNCHANGED <<status, results, progress, pickerOpen, alertOpen, apiKey,
                 selectedRestaurants>>

\* The values ResultsTable computes in the current state.
AllOrders == allOrders(results)
UniqueRestaurants == uniqueRestaurants(AllOrders)
FilteredOrders == filteredOrders(AllOrders, selectedRestaurants)
SummaryStats == summaryStats(FilteredOrders, UniqueRestaurants, selectedRestaurants)

\* onClick of a filter button; one button per entry of uniqueRestaurants.
toggleRestaurant(name) ==
    /\ UserCanAct
    /\ ResultsSection = "summary"
    /\ includes(UniqueRestaurants, name)
    /\ selectedRestaurants' = toggled(selectedRestaurants, name)
    /\ UNCHANGED <<status, results, progress, acts, pickerOpen, alertOpen, apiKey>>

\* onClick of the clear button, shown while something is selected.
clearFilter ==
    /\ UserCanAct
    /\ ResultsSection = "summary"
    /\ Len(UniqueRestaurants) > 0
    /\ Len(selectedRestaurants) > 0
    /\ selectedRestaurants' = <<>>
    /\ UNCHANGED <<status, results, progress, acts, pickerOpen, alertOpen, apiKey>>

Next ==
    \/ \E name \in Restaurants : toggleRestaurant(name)
    \/ clearFilter
    \/ \E sel \in Selections : handleDrop(sel)
    \/ DismissAlert
    \/ handleClick
    \/ PickerCancel
    \/ \E sel \in Selections : handleFileInput(sel)
    \/ \E b \in DOMAIN acts : LoopStep(b)
    \/ \E b \in DOMAIN acts, ok \in BOOLEAN : fileToBase64Settles(b, ok)
    \/ \E b \in DOMAIN acts, resp \in ServiceResponses : generateContentSettles(b, resp)

Spec == Init /\ [][Next]_vars

\* Synchronous code runs on, and every awaited promise settles.
Fairness ==
    /\ WF_vars(\E b \in DOMAIN acts : LoopStep(b))
    /\ WF_vars(\E b \in DOMAIN acts, ok \in BOOLEAN : fileToBase64Settles(b, ok))
    /\ WF_vars(\E b \in DOMAIN acts, resp \in ServiceResponses : generateContentSettles(b, resp))

FairSpec == Init /\ [][Next]_vars /\ Fairness

----------------------------------------------------------------------------
\* ResultsTable alone: mounted on a completed batch whose outcomes are drawn
\* from a bounded set, with the filter buttons as the only operations.

\* Largest number of orders in the outcomes of a batch.
MaxOrders == 3

ViewOrders ==
    { [orderNumber |-> "N", restaurantName |-> r, platform |-> p] :
        r \in Restaurants, p \in Platforms }

fileA == [name |-> "a.pdf", type |-> PDF]
fileB == [name |-> "b.pdf", type |-> PDF]

\* Outcome lists: all orders in one file, split over two files, or behind
\* a failed file, for order lists of at most n orders.
ViewResults(n) ==
    {<<>>} \cup
    UNION { { <<SuccessOutcome(fileA, s)>>,
              <<SuccessOutcome(fileA, IF s = <<>> THEN <<>> ELSE <<Head(s)>>),
                SuccessOutcome(fileB, IF s = <<>> THEN <<>> ELSE Tail(s))>>,
              <<ErrorOutcome(fileA), SuccessOutcome(fileB, s)>> } :
            s \in UNION { [1..m -> ViewOrders] : m \in 0..n } }

ViewInit ==
    /\ status = "COMPLETED"
    /\ results \in ViewResults(MaxOrders)
    /\ progress = NoProgress
    /\ acts = <<>>
    /\ pickerOpen = FALSE
    /\ alertOpen = FALSE
    /\ apiKey = TRUE
    /\ selectedRestaurants = <<>>

ViewNext ==
    \/ \E name \in Restaurants : toggleRestaurant(name)
    \/ clearFilter

ViewSpec == ViewInit /\ [][ViewNext]_vars

----------------------------------------------------------------------------
\* Vocabulary of the properties

\* Activation b runs the statements after the loop (lines 41-43).
Completes(b) == LoopStep(b) /\ acts[b].i >= Len(acts[b].files)

\* The extraction call of activation b for its current file fails.
Fails(b) ==
    \/ LoopStep(b) /\ acts[b].i < Len(acts[b].files) /\ ~apiKey
    \/ fileToBase64Settles(b, FALSE)
    \/ generateContentSettles(b, REJECT)
    \/ \E t \in Texts : t # "" /\ ~JSONparse(t).ok /\ generateContentSettles(b, t)

\* One outcome per file, in the order of the files.
OutcomesMatch(out, files) ==
    /\ Len(out) = Len(files)
    /\ \A k \in 1..Len(files) : out[k].fileName = files[k].name

\* A gesture that submits or asks to submit files.
UserSubmits ==
    \/ \E sel \in Selections : handleDrop(sel)
    \/ handleClick
    \/ \E sel \in Selections : handleFileInput(sel)

AllErrors(out) == \A k \in 1..Len(out) : out[k].status = "error"

----------------------------------------------------------------------------
\* C1: when a batch of N files completes, the phase becomes COMPLETED and
\* the outcomes list has exactly N entries, the k-th named after the k-th
\* input file; the list then stays as it is while the phase is COMPLETED.
C1_OneOutcomePerFileInOrder ==
    [][ /\ \A b \in DOMAIN acts :
             Completes(b) =>
                 status' = "COMPLETED" /\ OutcomesMatch(results', acts[b].files)
        /\ (status = "COMPLETED" /\ status' = "COMPLETED") => results' = results
      ]_vars

\* A two-file batch given as b.pdf, a.pdf has completed with both outcomes.
C1_Witness ==
    /\ status = "COMPLETED"
    /\ Len(results) = 2
    /\ results[1].fileName = "b.pdf" /\ results[1].status = "success"
    /\ results[2].fileName = "a.pdf" /\ results[2].status = "success"

\* C2: a failing extraction call is caught in the loop: the activation stays
\* alive, exactly one error outcome (status error, no orders, the fixed
\* message) is pushed for that file, the loop goes on with the next index,
\* and at the loop head the call is made for every remaining file.
C2_FailureIsolatedPerFile ==
    [][ \A b \in DOMAIN acts :
          /\ Fails(b) =>
                /\ Len(acts') = Len(acts)
                /\ acts'[b] = [acts[b] EXCEPT
                       !.newResults = Append(@,
                           [fileName |-> CurrentFile(acts[b]).name,
                            status |-> "error", orders |-> <<>>,
                            errorMessage |-> "Falha ao processar PDF"]),
                       !.i = @ + 1, !.pc = "loop"]
          /\ (LoopStep(b) /\ acts[b].i < Len(acts[b].files) /\ apiKey) =>
                /\ Len(acts') = Len(acts)
                /\ acts'[b] = [acts[b] EXCEPT !.pc = "fileToBase64"]
      ]_vars

\* The call for the second file is in flight after the first file failed.
C2_Witness ==
    \E b \in DOMAIN acts :
        /\ acts[b].pc = "generateContent"
        /\ acts[b].i = 1
        /\ acts[b].newResults[1].status = "error"

\* C3: a batch that has started (phase PROCESSING) reaches phase COMPLETED,
\* given that synchronous code runs on and every awaited promise settles.
C3_BatchCompletes == (status = "PROCESSING") ~> (status = "COMPLETED")

\* A batch has completed although its first file failed.
C3_Witness ==
    /\ status = "COMPLETED"
    /\ apiKey
    /\ Len(results) = 2
    /\ results[1].status = "error"
    /\ results[2].status = "success"

C6_EmptyBatch ==
    /\ [](\A b \in DOMAIN acts :
            Len(acts[b].files) = 0 => acts[b].pc = "loop" /\ acts[b].newResults = <<>>)
    /\ [][ /\ \A sel \in Selections :
                (Len(sel) > 0 /\ Len(validFiles(sel)) = 0 /\ handleFileInput(sel)) =>
                    /\ status' = "PROCESSING"
                    /\ results' = <<>>
                    /\ Len(acts') = Len(acts) + 1
                    /\ acts'[Len(acts')].files = <<>>
           /\ \A b \in DOMAIN acts :
                (Len(acts[b].files) = 0 /\ LoopStep(b)) =>
                    /\ status = "PROCESSING"
                    /\ status' = "COMPLETED"
                    /\ results' = <<>>
                    /\ acts' = RemoveAt(acts, b)
                    /\ ResultsSection' = "null"
         ]_vars

\* An empty batch has completed: COMPLETED, no outcomes, nothing rendered.
C6_Witness ==
    /\ status = "COMPLETED"
    /\ results = <<>>
    /\ acts = <<>>
    /\ ResultsSection = "null"

\* C7: from the start of a batch until it completes the outcomes list is
\* empty (no outcome of an earlier batch is in it), and when the batch
\* completes the list is exactly the outcomes collected for its own files.
C7_ResetAtBatchStart ==
    /\ [](acts # <<>> => results = <<>> /\ isProcessing)
    /\ [][ \A b \in DOMAIN acts :
             Completes(b) =>
                 /\ results' = acts[b].newResults
                 /\ \A k \in 1..Len(results') :
                      \E j \in 1..Len(acts[b].files) :
                          results'[k].fileName = acts[b].files[j].name
         ]_vars

\* A batch is collecting its own outcomes while the outcomes list is empty.
C7_Witness ==
    /\ results = <<>>
    /\ isProcessing
    /\ \E b \in DOMAIN acts : Suspended(acts[b]) /\ Len(acts[b].newResults) = 1
                              /\ acts[b].pc = "fileToBase64"

\* C8: whenever filtering a submission leaves no accepted file, on the drop
\* path and on the file-input path, a rejection notice is shown; and no
\* outcome is ever created for a file that is not a PDF.
C8_RejectionNoticeOnBothPaths ==
    /\ [][ \A sel \in Selections :
             ( /\ Len(sel) > 0
               /\ Len(validFiles(sel)) = 0
               /\ \/ ~isProcessing /\ handleDrop(sel)
                  \/ handleFileInput(sel) )
             => alertOpen' ]_vars
    /\ [](/\ \A k \in 1..Len(results) : results[k].fileName # "c.txt"
          /\ \A b \in DOMAIN acts :
               /\ \A k \in 1..Len(acts[b].files) : acts[b].files[k].type = PDF
               /\ \A k \in 1..Len(acts[b].newResults) :
                    acts[b].newResults[k].fileName # "c.txt")

\* C9 as stated: once the service has been called, the call fails only when
\* the service call errors, and a successful response with empty text or
\* with text that does not parse gives a success outcome with zero orders.
C9_UnparseableIsEmptySuccess ==
    [][ \A b \in DOMAIN acts :
          /\ (acts[b].pc = "generateContent" /\ Fails(b)) =>
                 generateContentSettles(b, REJECT)
          /\ \A t \in Texts :
               (generateContentSettles(b, t) /\ (t = "" \/ ~JSONparse(t).ok)) =>
                   acts'[b].newResults =
                       Append(acts[b].newResults, SuccessOutcome(CurrentFile(acts[b]), <<>>))
      ]_vars

\* C9 as amended: a successful response with empty text or with an empty
\* JSON array gives a success outcome with zero orders; a response whose
\* text is not empty and not valid JSON gives an error outcome; and an
\* error outcome is pushed only when the credential is missing, the
\* encoding fails, the service call rejects or the text does not parse.
C9_EmptyIsSuccessUnparseableIsError ==
    [][ \A b \in DOMAIN acts :
          /\ \A t \in Texts :
               generateContentSettles(b, t) =>
                   acts'[b].newResults =
                       Append(acts[b].newResults,
                              IF t = "" \/ t = "[]"
                              THEN SuccessOutcome(CurrentFile(acts[b]), <<>>)
                              ELSE IF JSONparse(t).ok
                                   THEN SuccessOutcome(CurrentFile(acts[b]), JSONparse(t).value)
                                   ELSE ErrorOutcome(CurrentFile(acts[b])))
          /\ ( /\ Len(acts') = Len(acts)
               /\ Len(acts'[b].newResults) > Len(acts[b].newResults)
               /\ acts'[b].newResults[Len(acts'[b].newResults)].status = "error" )
             => Fails(b)
      ]_vars

\* A batch whose first response was empty and whose second was not JSON.
C9_Witness ==
    /\ status = "COMPLETED"
    /\ apiKey
    /\ Len(results) = 2
    /\ results[1].status = "success" /\ results[1].orders = <<>>
    /\ results[2].status = "error"

\* C10: without the credential the application starts in IDLE and accepts
\* a batch; no call is ever suspended in the encoding or in the service,
\* every outcome is an error outcome, and the batch reaches COMPLETED.
C10_MissingKeyFailsAtFirstUse ==
    /\ [](~apiKey =>
            /\ \A b \in DOMAIN acts :
                 ~Suspended(acts[b]) /\ AllErrors(acts[b].newResults)
            /\ AllErrors(results))
    /\ (~apiKey /\ isProcessing) ~> (status = "COMPLETED")

\* Without the credential a two-file batch has completed with two errors.
C10_Witness ==
    /\ ~apiKey
    /\ status = "COMPLETED"
    /\ Len(results) = 2
    /\ AllErrors(results)

----------------------------------------------------------------------------
\* Vocabulary of the view properties

\* Record k of the orders passes a filter with the selected names S.
Kept(orders, S, k) == S = {} \/ orders[k].restaurantName \in S

\* How many of the first k records pass the filter.
KeptUpTo(orders, S, k) == Cardinality({ j \in 1..k : Kept(orders, S, j) })

RECURSIVE SumTotals(_, _)
SumTotals(stats, rows) ==
    IF rows = {} THEN 0
    ELSE LET r == CHOOSE x \in rows : TRUE
         IN stats[r]["total"] + SumTotals(stats, rows \ {r})

\* Place of a platform in the fixed priority list; the others come last.
PlatformRank(p) ==
    CASE p = "Uber Eats" -> 1
      [] p = "Glovo"     -> 2
      [] p = "Bolt"      -> 3
      [] OTHER           -> 4

\* Platform a is to stand before platform b.
StandsBefore(a, b) ==
    \/ PlatformRank(a) < PlatformRank(b)
    \/ /\ PlatformRank(a) = PlatformRank(b)
       /\ UnitsLess(CodeUnits(a), CodeUnits(b))

----------------------------------------------------------------------------
\* C11: with an empty selection filteredOrders equals allOrders; otherwise
\* it is the subsequence of allOrders, in the same relative order, of the
\* records whose restaurantName is selected: none omitted, no other included.
C11_FilterIsExactSubsequence ==
    LET S == Range(selectedRestaurants)
    IN /\ S = {} => FilteredOrders = AllOrders
       /\ Len(FilteredOrders) = KeptUpTo(AllOrders, S, Len(AllOrders))
       /\ \A k \in DOMAIN AllOrders :
            Kept(AllOrders, S, k) =>
                FilteredOrders[KeptUpTo(AllOrders, S, k)] = AllOrders[k]
       /\ S # {} => \A k \in DOMAIN FilteredOrders :
                       FilteredOrders[k].restaurantName \in S

\* Of three records only the middle one is of the selected restaurant.
C11_Witness ==
    /\ selectedRestaurants = <<"Miraflores">>
    /\ Len(AllOrders) = 3
    /\ AllOrders[1].restaurantName = "Almada Forum"
    /\ AllOrders[2].restaurantName = "Miraflores"
    /\ AllOrders[3].restaurantName = "Almada Forum"
    /\ Len(FilteredOrders) = 1

\* C12: the totals of the rows of the crosstab add up to the number of
\* filtered records, after any sequence of toggles and clears.
C12_TotalsSumToFilteredCount ==
    SumTotals(SummaryStats.stats, DOMAIN SummaryStats.stats) = Len(FilteredOrders)

\* Both restaurants are selected and the two rows share three records.
C12_Witness ==
    /\ Len(selectedRestaurants) = 2
    /\ Cardinality(DOMAIN SummaryStats.stats) = 2
    /\ Len(FilteredOrders) = 3
    /\ \E r \in DOMAIN SummaryStats.stats : SummaryStats.stats[r]["total"] = 2

\* C13: platformsInView holds each platform of the filtered records exactly
\* once; Uber Eats, Glovo, Bolt come first in that order, the others follow
\* in lexicographic order, whatever the order of the records.
C13_PlatformsInPriorityOrder ==
    LET ps == SummaryStats.platforms
    IN /\ Range(ps) = { FilteredOrders[k].platform : k \in DOMAIN FilteredOrders }
       /\ Len(ps) = Cardinality(Range(ps))
       /\ \A i, j \in DOMAIN ps : i < j => StandsBefore(ps[i], ps[j])

\* Records given as Unknown, Bolt, Just Eat are listed Bolt, Just Eat, Unknown.
C13_Witness ==
    /\ [k \in DOMAIN FilteredOrders |-> FilteredOrders[k].platform]
           = <<"Unknown", "Bolt", "Just Eat">>
    /\ SummaryStats.platforms = <<"Bolt", "Just Eat", "Unknown">>

====
